---- MODULE Spec2Model ----
(***************************************************************************)
(* Model of the generate -> normalize -> execute -> report pipeline of     *)
(* backend/server.py (and of the stand-alone copy of the executor in       *)
(* test1.py).                                                              *)
(*                                                                         *)
(* Text is modelled as a sequence of one-character strings, so that the    *)
(* regular expressions and the split / rstrip / join of                    *)
(* clean_generated_code are computed character by character.               *)
(***************************************************************************)
EXTENDS Integers, Sequences, FiniteSets, TLC

VARIABLES
    hosting,    \* how the hosting layer runs requests: "serial" or "threaded"
    artifact,   \* the file temp_code.py: [exists, content]
    pc,         \* per request thread: position in process_command / execute_code
    req,        \* per thread: [body, user_command, generated_code, code]
    child,      \* per thread: the child process of subprocess.run
    ret,        \* per thread: [result, response]: execute_code's value, the HTTP answer
    hist,       \* per thread: what happened while serving the current request
    norm        \* the normalizer applied on its own: [stage, raw, once, twice, fenced]

vars == <<hosting, artifact, pc, req, child, ret, hist, norm>>

(***************************************************************************)
(* Bounds of the model.                                                    *)
(***************************************************************************)
MaxTokens == 5      \* longest input of the normalizer, in tokens

(***************************************************************************)
(* Text.                                                                   *)
(***************************************************************************)
BT == "BACKTICK"   \* the backtick character
NL == "\n"
SP == " "

\* The characters matched by \s and removed by str.rstrip().
Whitespace == {SP, NL}

Fence == <<BT, BT, BT>>
Python == <<"p", "y", "t", "h", "o", "n">>

\* s[from..] (1-based); the empty text when from > Len(s).
Drop(s, from) == SubSeq(s, from, Len(s))

StartsWith(s, prefix) ==
    /\ Len(s) >= Len(prefix)
    /\ SubSeq(s, 1, Len(prefix)) = prefix

EndsWith(s, suffix) ==
    /\ Len(s) >= Len(suffix)
    /\ SubSeq(s, Len(s) - Len(suffix) + 1, Len(s)) = suffix

\* The number of whitespace characters of s starting at position i (\s*, greedy).
RECURSIVE SpanForward(_, _)
SpanForward(s, i) ==
    IF i <= Len(s) /\ s[i] \in Whitespace THEN 1 + SpanForward(s, i + 1) ELSE 0

\* The number of whitespace characters of s ending at position i.
RECURSIVE SpanBackward(_, _)
SpanBackward(s, i) ==
    IF i >= 1 /\ s[i] \in Whitespace THEN 1 + SpanBackward(s, i - 1) ELSE 0

\* re.sub(r'^<prefix>\s*', '', s): without re.MULTILINE, ^ is the start of the text.
StripLeading(s, prefix) ==
    IF StartsWith(s, prefix)
    THEN Drop(s, Len(prefix) + 1 + SpanForward(s, Len(prefix) + 1))
    ELSE s

\* As StripTrailingFence with the pattern r'<fence>$': the whitespace before the
\* fence is left in place.
StripTrailingFenceOnly(s) ==
    IF EndsWith(s, Fence)
    THEN SubSeq(s, 1, Len(s) - 3)
    ELSE IF EndsWith(s, Fence \o <<NL>>)
    THEN SubSeq(s, 1, Len(s) - 4) \o <<NL>>
    ELSE s

\* re.sub(r'\s*<fence>$', '', s): $ is the end of the text, or the position before a
\* newline that ends the text; that newline is not part of the match and stays.
StripTrailingFence(s) ==
    IF EndsWith(s, Fence)
    THEN SubSeq(s, 1, Len(s) - 3 - SpanBackward(s, Len(s) - 3))
    ELSE IF EndsWith(s, Fence \o <<NL>>)
    THEN SubSeq(s, 1, Len(s) - 4 - SpanBackward(s, Len(s) - 4)) \o <<NL>>
    ELSE s

\* Position of the first newline of s, 0 when there is none.
RECURSIVE FirstNewline(_, _)
FirstNewline(s, i) ==
    IF i > Len(s) THEN 0
    ELSE IF s[i] = NL THEN i
    ELSE FirstNewline(s, i + 1)

\* s.split('\n')
RECURSIVE Split(_)
Split(s) ==
    LET k == FirstNewline(s, 1)
    IN  IF k = 0 THEN <<s>>
        ELSE <<SubSeq(s, 1, k - 1)>> \o Split(Drop(s, k + 1))

\* line.rstrip()
RStrip(line) == SubSeq(line, 1, Len(line) - SpanBackward(line, Len(line)))

\* '\n'.join(lines)
RECURSIVE Join(_)
Join(lines) ==
    IF Len(lines) = 0 THEN <<>>
    ELSE IF Len(lines) = 1 THEN lines[1]
    ELSE lines[1] \o <<NL>> \o Join(Tail(lines))

CleanLines(lines) == [i \in 1..Len(lines) |-> RStrip(lines[i])]

clean_generated_code(code) ==
    LET c1 == StripLeading(code, Fence \o Python)
        c2 == StripTrailingFence(c1)
        c3 == StripLeading(c2, Fence)
    IN  Join(CleanLines(Split(c3)))

\* Three consecutive backticks somewhere in s.
HasFence(s) == \E i \in 1..(Len(s) - 2) : SubSeq(s, i, i + 2) = Fence

\* The markdown form of test1.py: a fence + 'python' line, the program, a fence line.
MarkdownWrap(p) == Fence \o Python \o <<NL>> \o p \o <<NL>> \o Fence

(***************************************************************************)
(* Inputs of the normalizer: every concatenation of at most MaxTokens      *)
(* tokens.                                                                 *)
(***************************************************************************)
Tokens == {Fence, <<BT>>, <<SP>>, <<NL>>, <<"x">>, Python}

RECURSIVE TokenTexts(_)
TokenTexts(n) ==
    IF n = 0 THEN {<<>>}
    ELSE LET shorter == TokenTexts(n - 1)
         IN  shorter \cup {s \o t : s \in shorter, t \in Tokens}

NormInputs == TokenTexts(MaxTokens)

(***************************************************************************)
(* The normalizer on its own: one input, normalized once, twice, and in    *)
(* its markdown form.                                                      *)
(***************************************************************************)
NormIdle == [stage |-> "idle", raw |-> <<>>, once |-> <<>>, twice |-> <<>>, fenced |-> <<>>]

NormalizeOnce ==
    /\ norm.stage = "input"
    /\ norm' = [norm EXCEPT !.stage = "once", !.once = clean_generated_code(norm.raw)]

NormalizeAgain ==
    /\ norm.stage = "once"
    /\ norm' = [norm EXCEPT !.stage = "twice", !.twice = clean_generated_code(norm.once)]

NormalizeFenced ==
    /\ norm.stage = "twice"
    /\ norm' = [norm EXCEPT !.stage = "fenced",
                            !.fenced = clean_generated_code(MarkdownWrap(norm.raw))]

(***************************************************************************)
(* The pipeline: process_command, call_llm_for_code, execute_code.         *)
(*                                                                         *)
(* What the surroundings may do: the backend answers or fails; open() of   *)
(* the artifact succeeds or fails; python3 starts or fails to start; the   *)
(* child program may delete or rewrite the artifact, ends with some return *)
(* code, or is still there when the time budget ends. os.remove fails only *)
(* with FileNotFoundError, on an artifact that is gone.                    *)
(***************************************************************************)
Threads == {"t1", "t2"}

\* "# Error generating code"
Sentinel == <<"#", " ", "E", "r", "r", "o", "r", " ", "g", "e", "n", "e", "r", "a",
              "t", "i", "n", "g", " ", "c", "o", "d", "e">>

\* Texts the inference backend answers with: a fenced program, a bare program
\* with trailing blanks, and a text that is no program.
Completions == {MarkdownWrap(<<"x">>), <<"y", SP>>, <<"x", SP, "(">>}

\* Of the texts above, those ast.parse rejects with a SyntaxError.
Unparseable == {MarkdownWrap(<<"x">>), <<"x", SP, "(">>}

DangerousPatterns == {}

\* Does the pattern occur in the text (re.search)?
Search(pattern, s) ==
    \E i \in 1..(Len(s) - Len(pattern) + 1) : SubSeq(s, i, i + Len(pattern) - 1) = pattern

is_code_safe(code) ==
    /\ \A pattern \in DangerousPatterns : ~Search(pattern, code)
    /\ code \notin Unparseable

\* What the inference backend does with one request: answers, or fails.
BackendOutcomes ==
    {[ok |-> TRUE, content |-> g] : g \in Completions}
        \cup {[ok |-> FALSE, content |-> <<>>]}

\* The JSON bodies of POST /process.
Bodies ==
    { [keys |-> {}, command |-> ""],
      [keys |-> {"text"}, command |-> ""],
      [keys |-> {"command"}, command |-> "open Safari"] }

\* What a child process that runs to its end leaves behind.
ChildOutcomes ==
    { [returncode |-> 0, stdout |-> "out", stderr |-> ""],
      [returncode |-> 0, stdout |-> "out", stderr |-> "warning"],
      [returncode |-> 1, stdout |-> "partial", stderr |-> "Traceback"] }

\* python3 given a script that does not exist.
CantOpen == [returncode |-> 2, stdout |-> "", stderr |-> "can't open file"]

NotRun == <<"<nothing>">>
Altered == <<"z">>

NoFile == [exists |-> FALSE, content |-> <<>>]
NoChild == [state |-> "none", ran |-> NotRun, returncode |-> -1, stdout |-> "", stderr |-> ""]
NoResult == [success |-> FALSE, message |-> "<none>", output |-> "<none>"]
NoResponse == [status |-> 0]
NoReq == [data |-> [keys |-> {}, command |-> ""], user_command |-> "",
          generated_code |-> <<>>, code |-> <<>>]
NoOutcome == [ok |-> FALSE, content |-> NotRun]
NoHist == [calls |-> <<>>, arg |-> <<>>, backend |-> "none", outcome |-> NoOutcome,
           exc |-> "none", raised |-> "none"]

\* The three results of execute_code.
SuccessResult(completed) ==
    [success |-> TRUE,
     message |-> "Command executed successfully",
     output |-> completed.stdout]

ExitCodeResult(completed) ==
    [success |-> FALSE,
     message |-> "Error executing code (exit code " \o ToString(completed.returncode) \o ")",
     output |-> completed.stderr]

TimeoutResult ==
    [success |-> FALSE,
     message |-> "Command execution timed out",
     output |-> "Execution took too long and was terminated"]

\* str(e) of the exceptions subprocess.run and os.remove raise here.
ExceptionText(exc) ==
    IF exc = "launch" THEN "[Errno 2] No such file or directory: 'python3'"
    ELSE "[Errno 2] No such file or directory: 'temp_code.py'"

ExceptionResult(exc) ==
    [success |-> FALSE,
     message |-> "Exception during execution: " \o ExceptionText(exc),
     output |-> ExceptionText(exc)]

\* The value execute_code returns when subprocess.run returned.
CompletedResult(completed) ==
    IF completed.returncode = 0 THEN SuccessResult(completed) ELSE ExitCodeResult(completed)

\* The value execute_code returns from an except clause.
HandlerResult(exc) ==
    IF exc = "timeout" THEN TimeoutResult ELSE ExceptionResult(exc)

\* As LLMReturn without the except clause: a backend failure is raised.
LLMReturnRaising(outcome) ==
    [raises |-> ~outcome.ok, value |-> outcome.content]

\* call_llm_for_code: the completion's content, or the sentinel when the call fails.
LLMReturn(outcome) ==
    IF outcome.ok
    THEN [raises |-> FALSE, value |-> outcome.content]
    ELSE [raises |-> FALSE, value |-> Sentinel]

\* As ArtifactText without the call of clean_generated_code.
ArtifactTextRaw(code) == code

\* The text execute_code writes to the artifact.
ArtifactText(code) == clean_generated_code(code)

\* The argument process_command passes to execute_code.
ExecutorArgument(generated_code) == generated_code

\* As ResponseBody, answering with the normalized code.
ResponseBodyNormalized(user_command, generated_code, result) ==
    [command |-> user_command,
     generated_code |-> clean_generated_code(generated_code),
     execution_result |-> result]

\* The JSON object process_command answers with.
ResponseBody(user_command, generated_code, result) ==
    [command |-> user_command,
     generated_code |-> generated_code,
     execution_result |-> result]

\* As Removed with the os.remove left out.
RemovedNot(file) == file

\* os.remove of an existing file.
Removed(file) == NoFile

\* As KilledChild without the kill: the child stays as it was.
LeftRunning(c) == c

\* subprocess.run on TimeoutExpired: the child is killed and waited for.
KilledChild(c) == [c EXCEPT !.state = "killed"]

Upd(f, t, v) == [f EXCEPT ![t] = v]

\* The hosting layer lets a request in; one at a time when it is serial.
MayEnter(t) ==
    hosting = "serial" => \A u \in Threads \ {t} : pc[u] = "idle"

\* process_command, up to the call of the generator.
process_command(t) ==
    /\ pc[t] = "idle"
    /\ MayEnter(t)
    /\ \E data \in Bodies :
        IF data.keys = {} \/ "command" \notin data.keys
        THEN /\ req' = Upd(req, t, [NoReq EXCEPT !.data = data])
             /\ ret' = Upd(ret, t, [ret[t] EXCEPT !.response =
                           [status |-> 400, body |-> [error |-> "No command provided"]]])
             /\ pc' = Upd(pc, t, "done")
        ELSE /\ req' = Upd(req, t, [NoReq EXCEPT !.data = data,
                                                 !.user_command = data.command])
             /\ pc' = Upd(pc, t, "generate")
             /\ UNCHANGED ret
    /\ UNCHANGED <<hosting, artifact, child, hist, norm>>

\* call_llm_for_code, called by process_command.
call_llm_for_code(t) ==
    /\ pc[t] = "generate"
    /\ \E outcome \in BackendOutcomes :
        LET r == LLMReturn(outcome)
        IN  /\ hist' = Upd(hist, t, [hist[t] EXCEPT
                          !.calls = Append(@, "call_llm_for_code"),
                          !.backend = IF outcome.ok THEN "answered" ELSE "failed",
                          !.outcome = outcome,
                          !.raised = IF r.raises THEN "call_llm_for_code" ELSE @])
            /\ IF r.raises
               THEN /\ pc' = Upd(pc, t, "raised")
                    /\ UNCHANGED req
               ELSE /\ pc' = Upd(pc, t, "execute")
                    /\ req' = Upd(req, t, [req[t] EXCEPT !.generated_code = r.value])
    /\ UNCHANGED <<hosting, artifact, child, ret, norm>>

\* execute_code, from its call to the write of the artifact. open() is outside
\* the try statement: when it fails the exception leaves execute_code.
execute_code(t) ==
    /\ pc[t] = "execute"
    /\ LET argument == ExecutorArgument(req[t].generated_code)
           code == ArtifactText(argument)
       IN  /\ req' = Upd(req, t, [req[t] EXCEPT !.code = code])
           /\ \E opened \in BOOLEAN :
                IF opened
                THEN /\ artifact' = [exists |-> TRUE, content |-> code]
                     /\ pc' = Upd(pc, t, "run")
                     /\ hist' = Upd(hist, t, [hist[t] EXCEPT
                                   !.calls = Append(@, "execute_code"),
                                   !.arg = argument])
                ELSE /\ pc' = Upd(pc, t, "raised")
                     /\ hist' = Upd(hist, t, [hist[t] EXCEPT
                                   !.calls = Append(@, "execute_code"),
                                   !.arg = argument,
                                   !.raised = "open"])
                     /\ UNCHANGED artifact
    /\ UNCHANGED <<hosting, child, ret, norm>>

\* subprocess.run starts the interpreter, or fails to.
subprocess_run(t) ==
    /\ pc[t] = "run"
    /\ \E started \in BOOLEAN :
        IF started
        THEN /\ child' = Upd(child, t, [NoChild EXCEPT !.state = "started"])
             /\ pc' = Upd(pc, t, "wait")
             /\ UNCHANGED hist
        ELSE /\ pc' = Upd(pc, t, "handler")
             /\ hist' = Upd(hist, t, [hist[t] EXCEPT !.exc = "launch"])
             /\ UNCHANGED child
    /\ UNCHANGED <<hosting, artifact, req, ret, norm>>

\* The interpreter opens the script it was given.
child_load(t) ==
    /\ child[t].state = "started"
    /\ child' = Upd(child, t,
            IF artifact.exists
            THEN [child[t] EXCEPT !.state = "running", !.ran = artifact.content]
            ELSE [child[t] EXCEPT !.state = "exited",
                                  !.returncode = CantOpen.returncode,
                                  !.stdout = CantOpen.stdout,
                                  !.stderr = CantOpen.stderr])
    /\ UNCHANGED <<hosting, artifact, pc, req, ret, hist, norm>>

\* The program deletes the file it was started from.
child_removes_artifact(t) ==
    /\ child[t].state = "running"
    /\ artifact.exists
    /\ artifact' = NoFile
    /\ UNCHANGED <<hosting, pc, req, child, ret, hist, norm>>

\* The program overwrites the file it was started from.
child_alters_artifact(t) ==
    /\ child[t].state = "running"
    /\ artifact.exists
    /\ artifact.content # Altered
    /\ artifact' = [artifact EXCEPT !.content = Altered]
    /\ UNCHANGED <<hosting, pc, req, child, ret, hist, norm>>

\* The program ends.
child_exit(t) ==
    /\ child[t].state = "running"
    /\ \E o \in ChildOutcomes :
        child' = Upd(child, t, [child[t] EXCEPT !.state = "exited",
                                                !.returncode = o.returncode,
                                                !.stdout = o.stdout,
                                                !.stderr = o.stderr])
    /\ UNCHANGED <<hosting, artifact, pc, req, ret, hist, norm>>

\* The time budget of subprocess.run ends with the child still there.
timeout_expired(t) ==
    /\ pc[t] = "wait"
    /\ child[t].state \in {"started", "running"}
    /\ child' = Upd(child, t, KilledChild(child[t]))
    /\ hist' = Upd(hist, t, [hist[t] EXCEPT !.exc = "timeout"])
    /\ pc' = Upd(pc, t, "handler")
    /\ UNCHANGED <<hosting, artifact, req, ret, norm>>

\* subprocess.run returned: os.remove(code_file), then the result by return code.
remove_and_return(t) ==
    /\ pc[t] = "wait"
    /\ child[t].state = "exited"
    /\ IF artifact.exists
       THEN /\ artifact' = Removed(artifact)
            /\ ret' = Upd(ret, t, [ret[t] EXCEPT !.result = CompletedResult(child[t])])
            /\ pc' = Upd(pc, t, "returned")
            /\ UNCHANGED hist
       ELSE /\ hist' = Upd(hist, t, [hist[t] EXCEPT !.exc = "remove"])
            /\ pc' = Upd(pc, t, "handler")
            /\ UNCHANGED <<artifact, ret>>
    /\ UNCHANGED <<hosting, req, child, norm>>

\* An except clause: if os.path.exists(code_file)
handler_exists(t) ==
    /\ pc[t] = "handler"
    /\ IF artifact.exists
       THEN /\ pc' = Upd(pc, t, "handler_remove")
            /\ UNCHANGED ret
       ELSE /\ ret' = Upd(ret, t, [ret[t] EXCEPT !.result = HandlerResult(hist[t].exc)])
            /\ pc' = Upd(pc, t, "returned")
    /\ UNCHANGED <<hosting, artifact, req, child, hist, norm>>

\* An except clause: os.remove(code_file), then the return. FileNotFoundError
\* raised here leaves execute_code.
handler_remove(t) ==
    /\ pc[t] = "handler_remove"
    /\ IF artifact.exists
       THEN /\ artifact' = Removed(artifact)
            /\ ret' = Upd(ret, t, [ret[t] EXCEPT !.result = HandlerResult(hist[t].exc)])
            /\ pc' = Upd(pc, t, "returned")
            /\ UNCHANGED hist
       ELSE /\ hist' = Upd(hist, t, [hist[t] EXCEPT !.raised = "handler"])
            /\ pc' = Upd(pc, t, "raised")
            /\ UNCHANGED <<artifact, ret>>
    /\ UNCHANGED <<hosting, req, child, norm>>

\* process_command after execute_code returned: the 200 answer.
respond(t) ==
    /\ pc[t] = "returned"
    /\ ret' = Upd(ret, t, [ret[t] EXCEPT !.response =
                  [status |-> 200,
                   body |-> ResponseBody(req[t].user_command, req[t].generated_code,
                                         ret[t].result)]])
    /\ pc' = Upd(pc, t, "done")
    /\ UNCHANGED <<hosting, artifact, req, child, hist, norm>>

\* An exception left process_command: the framework answers 500.
unhandled(t) ==
    /\ pc[t] = "raised"
    /\ ret' = Upd(ret, t, [ret[t] EXCEPT !.response = [status |-> 500]])
    /\ pc' = Upd(pc, t, "done")
    /\ UNCHANGED <<hosting, artifact, req, child, hist, norm>>

\* The request is over; the thread takes the next one.
finish(t) ==
    /\ pc[t] = "done"
    /\ pc' = Upd(pc, t, "idle")
    /\ req' = Upd(req, t, NoReq)
    /\ child' = Upd(child, t, NoChild)
    /\ ret' = Upd(ret, t, [result |-> NoResult, response |-> NoResponse])
    /\ hist' = Upd(hist, t, NoHist)
    /\ UNCHANGED <<hosting, artifact, norm>>

Init ==
    /\ hosting \in {"serial", "threaded"}
    /\ artifact = NoFile
    /\ pc = [t \in Threads |-> "idle"]
    /\ req = [t \in Threads |-> NoReq]
    /\ child = [t \in Threads |-> NoChild]
    /\ ret = [t \in Threads |-> [result |-> NoResult, response |-> NoResponse]]
    /\ hist = [t \in Threads |-> NoHist]
    /\ norm = NormIdle

Next ==
    \E t \in Threads :
        \/ process_command(t)
        \/ call_llm_for_code(t)
        \/ execute_code(t)
        \/ subprocess_run(t)
        \/ child_load(t)
        \/ child_removes_artifact(t)
        \/ child_alters_artifact(t)
        \/ child_exit(t)
        \/ timeout_expired(t)
        \/ remove_and_return(t)
        \/ handler_exists(t)
        \/ handler_remove(t)
        \/ respond(t)
        \/ unhandled(t)
        \/ finish(t)

Spec == Init /\ [][Next]_vars

\* The normalizer alone, on every input up to the bound.
InitNormalize ==
    /\ hosting = "serial"
    /\ artifact = NoFile
    /\ pc = [t \in Threads |-> "idle"]
    /\ req = [t \in Threads |-> NoReq]
    /\ child = [t \in Threads |-> NoChild]
    /\ ret = [t \in Threads |-> [result |-> NoResult, response |-> NoResponse]]
    /\ hist = [t \in Threads |-> NoHist]
    /\ \E raw \in NormInputs : norm = [NormIdle EXCEPT !.stage = "input", !.raw = raw]

NextNormalize ==
    /\ (NormalizeOnce \/ NormalizeAgain \/ NormalizeFenced)
    /\ UNCHANGED <<hosting, artifact, pc, req, child, ret, hist>>

SpecNormalize == InitNormalize /\ [][NextNormalize]_vars

\* The threads' own steps after an exception was caught are taken: a running
\* thread goes on through its except clause.
FairSpec ==
    /\ Spec
    /\ \A t \in Threads : WF_vars(handler_exists(t)) /\ WF_vars(handler_remove(t))

(***************************************************************************)
(* Properties.                                                             *)
(***************************************************************************)
ResponseKeys == {"command", "generated_code", "execution_result"}

\* The text call_llm_for_code hands back for what the backend did.
Generated(outcome) == IF outcome.ok THEN outcome.content ELSE Sentinel

\* C1: with requests served one at a time, the artifact temp_code.py does not
\* exist when execute_code has returned, whichever way it returned: exit 0,
\* exit non-zero, timeout, launch exception, artifact already missing at os.remove.
C1_ArtifactGoneOnReturn ==
    \A t \in Threads :
        (hosting = "serial" /\ pc[t] = "returned") => ~artifact.exists

\* C1 witness: a serial call returned through the except clause entered because
\* os.remove found the artifact already missing.
C1_Witness ==
    \E t \in Threads :
        /\ hosting = "serial"
        /\ pc[t] = "returned"
        /\ hist[t].exc = "remove"
        /\ child[t].state = "exited"
        /\ ret[t].result = ExceptionResult("remove")

\* C2: when execute_code has returned, success is true exactly when the child
\* exited with status 0; then output is the child's stdout; when the child exited
\* non-zero, success is false, output is its stderr and the message carries the
\* exit code. Stated for requests served one at a time.
C2_SuccessIffExitZero ==
    \A t \in Threads :
        (hosting = "serial" /\ pc[t] = "returned") =>
            LET exited == child[t].state = "exited"
                r == ret[t].result
            IN  /\ r.success <=> (exited /\ child[t].returncode = 0)
                /\ (exited /\ child[t].returncode = 0) => r.output = child[t].stdout
                /\ (exited /\ child[t].returncode # 0) =>
                      /\ ~r.success
                      /\ r.output = child[t].stderr
                      /\ r.message = ExitCodeResult(child[t]).message

\* C3: no exception leaves process_command: a request with a command is
\* answered 200 with command, generated_code and execution_result, a request
\* without one 400. Stated for requests served one at a time.
C3_AlwaysStructuredAnswer ==
    \A t \in Threads :
        hosting = "serial" =>
            /\ pc[t] # "raised"
            /\ pc[t] = "done" =>
                  IF "command" \in req[t].data.keys
                  THEN /\ ret[t].response.status = 200
                       /\ DOMAIN ret[t].response.body = ResponseKeys
                  ELSE ret[t].response.status = 400

C5_SerializedRunsOwnCode ==
    \A t \in Threads :
        (hosting = "serial" /\ child[t].state # "none") =>
            /\ req[t].code = clean_generated_code(req[t].generated_code)
            /\ child[t].ran \in {NotRun, req[t].code}
            /\ child[t].state \in {"running", "exited"} => child[t].ran = req[t].code

\* C5 witness: with threads, a call's child is running the code that the other
\* call, still in flight, wrote over the artifact.
C5_Witness ==
    \E t \in Threads : \E u \in Threads \ {t} :
        /\ hosting = "threaded"
        /\ child[t].state = "running"
        /\ child[t].ran = req[u].code
        /\ child[t].ran # req[t].code
        /\ pc[u] \in {"run", "wait"}

\* C6: normalizing a normalized text changes nothing.
C6_Idempotent ==
    norm.stage \in {"twice", "fenced"} => norm.twice = norm.once

\* A line with the fence markers at its ends (and the language tag) taken off.
Unfenced(line) ==
    LET a == IF StartsWith(line, Fence \o Python) THEN Drop(line, 10)
             ELSE IF StartsWith(line, Fence) THEN Drop(line, 4)
             ELSE line
    IN  IF EndsWith(a, Fence) THEN SubSeq(a, 1, Len(a) - 3) ELSE a

\* What a line of the input may be in the output: itself or itself without
\* fence markers, with its trailing whitespace removed.
Kept(line) == {RStrip(line), RStrip(Unfenced(line))}

\* outs are, in order, what some of the lines ins are kept as.
RECURSIVE Embeds(_, _)
Embeds(outs, ins) ==
    IF Len(outs) = 0 THEN TRUE
    ELSE IF Len(ins) = 0 THEN FALSE
    ELSE IF outs[1] \in Kept(ins[1]) THEN Embeds(Tail(outs), Tail(ins))
    ELSE Embeds(outs, Tail(ins))

\* C7: the normalized text holds no fence marker, and its lines are lines of the
\* input, in their order, each with only its trailing whitespace removed.
C7_NoFenceLinesKept ==
    norm.stage \in {"once", "twice", "fenced"} =>
        /\ ~HasFence(norm.once)
        /\ Embeds(Split(norm.once), Split(norm.raw))

\* A program text as the claim takes it: no fence marker, no whitespace at
\* either end.
BareProgram(p) ==
    /\ ~HasFence(p)
    /\ Len(p) > 0 => (p[1] \notin Whitespace /\ p[Len(p)] \notin Whitespace)

\* C8: a program with no fence marker and no whitespace at its ends normalizes
\* to the same text with and without the markdown fence around it, so
\* execute_code writes the same artifact for both.
C8_FenceMakesNoDifference ==
    (norm.stage = "fenced" /\ BareProgram(norm.raw)) =>
        /\ norm.fenced = norm.once
        /\ ArtifactText(MarkdownWrap(norm.raw)) = ArtifactText(norm.raw)

\* C8 witness: a program of several lines, one of them ending in blanks that
\* the normalizer removes, normalized in both forms.
C8_Witness ==
    /\ norm.stage = "fenced"
    /\ BareProgram(norm.raw)
    /\ Len(Split(norm.raw)) >= 2
    /\ norm.once # norm.raw
    /\ norm.fenced = norm.once

\* C9: call_llm_for_code never raises; when the backend fails it returns the
\* sentinel, process_command passes the sentinel to execute_code like any other
\* text, and answers with it as generated_code in the usual three fields.
C9_SentinelForwarded ==
    \A t \in Threads :
        /\ hist[t].raised # "call_llm_for_code"
        /\ hist[t].backend # "none" => req[t].generated_code \in Completions \cup {Sentinel}
        /\ hist[t].backend = "failed" =>
              /\ req[t].generated_code = Sentinel
              /\ pc[t] \notin {"generate", "execute"} =>
                    /\ hist[t].calls = <<"call_llm_for_code", "execute_code">>
                    /\ hist[t].arg = Sentinel
              /\ (pc[t] = "done" /\ ret[t].response.status = 200) =>
                    /\ ret[t].response.body.generated_code = Sentinel
                    /\ DOMAIN ret[t].response.body = ResponseKeys

\* C9 witness: the backend failed, the sentinel was run by a child process and
\* the request was answered 200.
C9_Witness ==
    \E t \in Threads :
        /\ hist[t].backend = "failed"
        /\ pc[t] = "done"
        /\ ret[t].response.status = 200
        /\ child[t].ran = Sentinel
        /\ ret[t].response.body.generated_code = Sentinel

\* C10: a request with a command calls the generator once, then the executor
\* once on the generator's raw text, and nothing else; the executor is called
\* whatever is_code_safe would say of the text; the answer carries the raw text
\* as generated_code and the request's command as command.
C10_GenerateThenExecute ==
    \A t \in Threads :
        /\ hist[t].calls \in {<<>>, <<"call_llm_for_code">>,
                              <<"call_llm_for_code", "execute_code">>}
        /\ pc[t] \in {"run", "wait", "handler", "handler_remove", "returned"} =>
              /\ hist[t].calls = <<"call_llm_for_code", "execute_code">>
              /\ hist[t].arg = Generated(hist[t].outcome)
        /\ (pc[t] = "done" /\ "command" \in req[t].data.keys) =>
              /\ hist[t].calls = <<"call_llm_for_code", "execute_code">>
              /\ hist[t].arg = Generated(hist[t].outcome)
              /\ ret[t].response.status = 200 =>
                    /\ ret[t].response.body.generated_code = Generated(hist[t].outcome)
                    /\ ret[t].response.body.command = req[t].data.command

\* C10 witness: a text is_code_safe rejects, and which normalization changes,
\* was run by a child process and answered as generated_code.
C10_Witness ==
    \E t \in Threads :
        /\ pc[t] = "done"
        /\ ret[t].response.status = 200
        /\ ~is_code_safe(req[t].generated_code)
        /\ child[t].ran = req[t].code
        /\ req[t].code # req[t].generated_code
        /\ ret[t].response.body.generated_code = req[t].generated_code

====
